---- MODULE Spec2Model ----
(***************************************************************************)
(* office2pdf (src/main.py): a Flask endpoint that stages an uploaded      *)
(* office document, drives a per-thread COM Office application to export   *)
(* it as PDF, reads the PDF back and removes the staged files.             *)
(*                                                                         *)
(* One worker is one waitress thread.  A request is handled by one thread  *)
(* from upload_file to the response; the steps of concurrent requests      *)
(* interleave at every file-system or COM call.                            *)
(***************************************************************************)
EXTENDS Integers, Sequences, FiniteSets, TLC

\* ------------------------------------------------------------------ bounds
\* Number of Office application instances that can be referred to at a time.
NumHandles == 3
\* Number of distinct uuid4 values available to name staged files.
NumUuids == 4
\* Staged files left behind by finished requests are counted up to this.
MaxLeaked == 1

Workers == {"w1", "w2"}
Uuids == 1..NumUuids
Handles == 1..NumHandles

\* ------------------------------------------------------------ "None" values
NoHandle == 0
NoPath == [id |-> 0, name |-> <<>>]
NoDoc == [eng |-> 0, id |-> 0]
NoError == "none"
NoResponse == [status |-> 0, body |-> "none"]
NoEngine == [kind |-> "none", alive |-> FALSE, creator |-> "none", foreign |-> FALSE]
NoExportFailure == [app_type |-> "none", office_app |-> 0]

\* --------------------------------------------------- strings as char tuples
Lower(c) ==
    CASE c = "D" -> "d" [] c = "O" -> "o" [] c = "C" -> "c" [] c = "X" -> "x"
      [] c = "R" -> "r" [] OTHER -> c

\* str.lower()
lower(s) == [i \in 1..Len(s) |-> Lower(s[i])]

\* str.endswith(suffix)
endswith(s, suf) ==
    /\ Len(s) >= Len(suf)
    /\ \A i \in 1..Len(suf) : s[Len(s) - Len(suf) + i] = suf[i]

\* Index of the extension dot as os.path.splitext finds it: the last dot,
\* unless only dots precede it (a leading-dot name has no extension); 0 if none.
ExtDot(s) ==
    LET dots == {i \in 1..Len(s) : s[i] = "."}
        last == IF dots = {} THEN 0 ELSE CHOOSE i \in dots : \A j \in dots : j <= i
    IN IF last # 0 /\ \E j \in 1..(last - 1) : s[j] # "." THEN last ELSE 0

\* os.path.splitext(filename)[0] and [1]
splitext0(s) == IF ExtDot(s) = 0 THEN s ELSE SubSeq(s, 1, ExtDot(s) - 1)
splitext1(s) == IF ExtDot(s) = 0 THEN <<>> ELSE SubSeq(s, ExtDot(s), Len(s))

\* str.lstrip(".")
RECURSIVE lstripDot(_)
lstripDot(s) == IF s # <<>> /\ Head(s) = "." THEN lstripDot(Tail(s)) ELSE s

\* werkzeug secure_filename on the characters used here: path separators and
\* spaces are dropped or replaced, leading and trailing dots are stripped.
RECURSIVE rstripDot(_)
rstripDot(s) ==
    IF s # <<>> /\ s[Len(s)] = "." THEN rstripDot(SubSeq(s, 1, Len(s) - 1)) ELSE s

secure_filename(s) == rstripDot(lstripDot(SelectSeq(s, LAMBDA c : c # "/")))

ALLOWED_EXTENSIONS ==
    { <<"d","o","c">>, <<"d","o","c","x">>, <<"x","l","s">>, <<"x","l","s","x">>,
      <<"p","p","t">>, <<"p","p","t","x">> }

\* Uploaded filenames the model draws requests from.
Filenames ==
    { <<"R",".","D","O","C","X">>,      \* Report.DOCX
      <<"b",".","x","l","s">>,          \* budget.xls
      <<"p",".","p","p","t","x">>,      \* slides.pptx
      <<"n",".","t","x","t">>,          \* unrecognized extension
      <<"n",".","d","o","c",".","t">>,  \* recognized extension in the middle only
      <<"d","o","c">>,                  \* no dot at all
      <<".","d","o","c">>,              \* leading dot only: no extension
      <<>> }                            \* empty filename

\* Faulty variant of allowed_file: every name is accepted.
allowed_file_any(filename) == TRUE

\* allowed_file(filename)

allowed_file(filename) ==
    IF filename = <<>> \/ ~\E i \in 1..Len(filename) : filename[i] = "."
    THEN FALSE
    ELSE lstripDot(lower(splitext1(filename))) \in ALLOWED_EXTENSIONS

\* The app_type conditional expression of upload_file.
app_type_of(filename) ==
    LET ext_lower == lower(filename)
    IN IF endswith(ext_lower, <<".","d","o","c">>)
          \/ endswith(ext_lower, <<".","d","o","c","x">>) THEN "Word"
       ELSE IF endswith(ext_lower, <<".","x","l","s">>)
               \/ endswith(ext_lower, <<".","x","l","s","x">>) THEN "Excel"
       ELSE "PowerPoint"

\* Faulty variant of get_safe_filename: the sanitized name without the uuid4
\* prefix.
get_safe_filename_unprefixed(u, filename) == [id |-> 0, name |-> secure_filename(filename)]

\* get_safe_filename(filename) with uuid4() = u

get_safe_filename(u, filename) == [id |-> u, name |-> secure_filename(filename)]

\* ------------------------------------------------------------------- state
VARIABLES
    scenario,      \* what the environment does in this run; never changes
    pc,            \* per worker: where its request handler stands
    local,         \* per worker: the local variables of the request in hand
    response,      \* per worker: the response of its last finished request
    thread_local,  \* threading.local(): slot key -> office_app handle
    engines,       \* handle -> the Office application it refers to
    fs,            \* paths under uploads/ that exist and belong to a request
                   \* in hand
    leaked,        \* number of files left under uploads/ by finished requests
    openDocs,      \* documents of requests in hand, open inside an application
    openFailed,    \* per worker: the app_type of its last conversion if Open
                   \* returned None in it, else "none"
    exportFailed   \* per worker: the app_type and the application handle of
                   \* its last conversion if the export raised in it

vars ==
    <<scenario, pc, local, response, thread_local, engines, fs, leaked, openDocs,
      openFailed, exportFailed>>

Requests ==
    {[has_file |-> FALSE, filename |-> <<>>]}
    \cup {[has_file |-> TRUE, filename |-> f] : f \in scenario.names}

NoLocals ==
    [ filename |-> <<>>, app_type |-> "none",
      input_save_path |-> NoPath, input_full_path |-> NoPath,
      office_app |-> NoHandle, doc |-> NoDoc, prev_open_failed |-> "none",
      prev_export_failed |-> NoExportFailure,
      pdf_save_path |-> NoPath, pdf_filename |-> <<>>,
      pdf_stream |-> "empty", err |-> NoError, trace |-> <<>> ]

\* One thread serving requests one after the other; every file name, and
\* every failure of the file system, of the applications and of the documents.
Sequential ==
    [threads |-> {"w1"}, names |-> Filenames, faults |-> {"fs", "engine", "document"}]

\* Two threads serving requests at the same time; uploads of the same name,
\* applications that die or fail to start.
Concurrent ==
    [ threads |-> Workers,
      names |-> {<<"R",".","D","O","C","X">>},
      faults |-> {"engine"} ]

Faulty(class) == class \in scenario.faults

InitFor(sc) ==
    /\ scenario = sc
    /\ pc = [w \in Workers |-> "idle"]
    /\ local = [w \in Workers |-> NoLocals]
    /\ response = [w \in Workers |-> NoResponse]
    /\ thread_local = [w \in Workers |-> NoHandle]
    /\ engines = [h \in Handles |-> NoEngine]
    /\ fs = {}
    /\ leaked = 0
    /\ openDocs = {}
    /\ openFailed = [w \in Workers |-> "none"]
    /\ exportFailed = [w \in Workers |-> NoExportFailure]

Init == InitFor(Sequential)

InitConcurrent == InitFor(Concurrent)

\* uuid4 values not naming any staged file, in-flight path or open document.
UsedUuids ==
    {p.id : p \in fs} \cup {d.id : d \in openDocs}
    \cup UNION {{local[w].input_save_path.id, local[w].pdf_save_path.id} : w \in Workers}

FreshUuids == Uuids \ UsedUuids

\* uuid.uuid4(): a value no staged file, path in hand or open document carries.
\* The values are interchangeable names, so the least unused one stands for it.
uuid4 == CHOOSE u \in FreshUuids : \A v \in FreshUuids : u <= v

\* The exception path of office_to_pdf_stream: except logs and re-raises
\* (lines 162-164), then the finally block runs.
Raise(L, e) == [L EXCEPT !.err = e]

Log(L, ev) == [L EXCEPT !.trace = Append(@, ev)]

\* Faulty variant of Swallow: the exception of a terminal action replaces the
\* outcome of the request.
Propagate(L, e) == [L EXCEPT !.err = e]

\* The except clauses inside the finally block (lines 175-176, 183-184,
\* 190-191): the exception is logged and nothing else happens.

Swallow(L, e) == L

\* ------------------------------------------------------- upload_file, entry
\* Lines 224-232 and 264-265: the three client-error returns.
upload_file_reject(w, r) ==
    /\ w \in scenario.threads
    /\ pc[w] = "idle"
    /\ ~r.has_file \/ r.filename = <<>> \/ ~allowed_file(r.filename)
    /\ response' = [response EXCEPT ![w] = [status |-> 400, body |-> "error"]]
    /\ local' = [local EXCEPT ![w] = NoLocals]
    /\ UNCHANGED <<scenario, pc, thread_local, engines, fs, leaked, openDocs, openFailed, exportFailed>>

\* Lines 234-249: an accepted upload enters office_to_pdf_stream.
upload_file_accept(w, r) ==
    /\ w \in scenario.threads
    /\ pc[w] = "idle"
    /\ r.has_file /\ r.filename # <<>> /\ allowed_file(r.filename)
    /\ local' = [local EXCEPT ![w] =
                    [NoLocals EXCEPT !.filename = r.filename,
                                     !.app_type = app_type_of(r.filename),
                                     !.prev_open_failed = openFailed[w],
                                     !.prev_export_failed = exportFailed[w]]]
    /\ openFailed' = [openFailed EXCEPT ![w] = "none"]
    /\ exportFailed' = [exportFailed EXCEPT ![w] = NoExportFailure]
    /\ response' = [response EXCEPT ![w] = NoResponse]
    /\ pc' = [pc EXCEPT ![w] = "stage"]
    /\ UNCHANGED <<scenario, thread_local, engines, fs, leaked, openDocs>>

\* ---------------------------------------- office_to_pdf_stream, lines 96-115
\* get_safe_filename, then file_obj.save(input_save_path).  A failing save
\* raises before input_full_path is assigned; the file it was writing may or
\* may not have been created.
stage_input(w) ==
    /\ pc[w] = "stage"
    /\ FreshUuids # {}
    /\ \E saved \in {"ok"} \cup (IF Faulty("fs") THEN {"fail_no_file", "fail_partial_file"}
                               ELSE {}) :
        LET p == get_safe_filename(uuid4, local[w].filename)
            L == [local[w] EXCEPT !.input_save_path = p]
        IN /\ fs' = IF saved = "fail_no_file" THEN fs ELSE fs \cup {p}
           /\ IF saved = "ok"
              THEN /\ local' = [local EXCEPT ![w] =
                                   Log([L EXCEPT !.input_full_path = p], "stage")]
                   /\ pc' = [pc EXCEPT ![w] = "acquire"]
              ELSE /\ local' = [local EXCEPT ![w] = Raise(L, "save")]
                   /\ pc' = [pc EXCEPT ![w] = "close"]
    /\ UNCHANGED <<scenario, response, thread_local, engines, leaked, openDocs, openFailed, exportFailed>>

\* ------------------------------------------- get_office_application, 196-218
\* The handles a slot or a request in hand refers to.
RefsOf(tl, loc) ==
    ( {tl[k] : k \in Workers} \cup {loc[w].office_app : w \in Workers}
      \cup {loc[w].doc.eng : w \in Workers} ) \ {NoHandle}

Referenced == RefsOf(thread_local, local)

\* A handle nothing refers to any more is released: no call can reach its
\* application again, and its number is free to name a later application.
Collect(E, refs) == [h \in Handles |-> IF h \in refs THEN E[h] ELSE NoEngine]

\* The handle DispatchEx returns for a new application.
NewHandle == CHOOSE h \in Handles \ Referenced : \A g \in Handles \ Referenced : h <= g

\* Faulty variant of ThreadLocalKey: a module-level global, one slot shared by
\* all threads.
SharedKey(w) == "w1"

\* thread_local is a threading.local(): each thread reads and writes its own
\* slot.
ThreadLocalKey(w) == w

\* Faulty variant of ProbeResult: an existing handle is never found usable.
ProbeAlwaysStale(h) == IF h = NoHandle THEN "ValueError" ELSE "com_error"

\* Lines 199-203: the hasattr/None test and the Visible probe of handle h.

ProbeResult(h) ==
    IF h = NoHandle THEN "ValueError"
    ELSE IF engines[h].alive THEN "ok" ELSE "com_error"

\* Faulty variant of CaughtByAcquire: com_error is not caught.
CaughtOnlyValueError(exc) == exc = "ValueError"

\* Line 205: except (pythoncom.com_error, ValueError).

CaughtByAcquire(exc) == exc \in {"com_error", "ValueError"}

\* A COM call by worker w on application h; foreign records that a thread
\* other than the one that created h has called into it.
Invoke(E, h, w) ==
    IF h = NoHandle THEN E
    ELSE [E EXCEPT ![h].foreign = @ \/ E[h].creator # w]

get_office_application(w) ==
    /\ pc[w] = "acquire"
    /\ LET k == ThreadLocalKey(w)
           h == thread_local[k]
           probe == ProbeResult(h)
           probed == Invoke(engines, h, w)
           new == NewHandle
       IN \/ /\ probe = "ok"
             /\ engines' = probed
             /\ local' = [local EXCEPT ![w] =
                             Log([@ EXCEPT !.office_app = h], "probe_ok")]
             /\ pc' = [pc EXCEPT ![w] = "open"]
             /\ UNCHANGED thread_local
          \/ /\ probe # "ok" /\ ~CaughtByAcquire(probe)
             /\ engines' = probed
             /\ local' = [local EXCEPT ![w] = Raise(Log(@, "probe_fail"), "probe")]
             /\ pc' = [pc EXCEPT ![w] = "close"]
             /\ UNCHANGED thread_local
          \/ /\ probe # "ok" /\ CaughtByAcquire(probe)
             /\ \/ \* DispatchEx raises: nothing is assigned
                   /\ Faulty("engine")
                   /\ engines' = probed
                   /\ local' = [local EXCEPT ![w] =
                                   Raise(Log(IF h = NoHandle THEN @ ELSE Log(@, "probe_fail"),
                                             "construct_fail"), "init")]
                   /\ pc' = [pc EXCEPT ![w] = "close"]
                   /\ UNCHANGED thread_local
                \/ \* DispatchEx returns; Visible = False succeeds or raises
                   /\ Handles \ Referenced # {}
                   /\ \E configured \in {TRUE} \cup (IF Faulty("engine") THEN {FALSE} ELSE {}) :
                       LET L == Log(IF h = NoHandle THEN local[w]
                                    ELSE Log(local[w], "probe_fail"), "construct")
                           slot == [thread_local EXCEPT ![k] = new]
                           loc == [local EXCEPT ![w] =
                                      IF configured THEN [L EXCEPT !.office_app = new]
                                      ELSE Raise(L, "config")]
                       IN /\ thread_local' = slot
                          /\ local' = loc
                          /\ engines' = Collect(
                                 [probed EXCEPT ![new] =
                                     [kind |-> local[w].app_type, alive |-> TRUE,
                                      creator |-> w, foreign |-> FALSE]],
                                 RefsOf(slot, loc))
                          /\ pc' = [pc EXCEPT ![w] = IF configured THEN "open" ELSE "close"]
    /\ UNCHANGED <<scenario, response, fs, leaked, openDocs, openFailed, exportFailed>>

\* ------------------------------------- office_to_pdf_stream, lines 120-130
\* Faulty variant of SlotAfterOpenNone: the slot is cleared.
SlotClearedAfterOpenNone(w) == NoHandle

\* The handle the thread keeps after an Open that returned None: line 130 only
\* raises, the slot is not touched.

SlotAfterOpenNone(w) == thread_local[ThreadLocalKey(w)]

\* The collection the dispatch on app_type reads: Documents, Workbooks or
\* Presentations.  An application of another kind has no such attribute.
OpenCall(app_type) ==
    CASE app_type = "Word" -> "Documents.Open"
      [] app_type = "Excel" -> "Workbooks.Open"
      [] app_type = "PowerPoint" -> "Presentations.Open"

open_document(w) ==
    /\ pc[w] = "open"
    /\ LET h == local[w].office_app
           d == [eng |-> h, id |-> local[w].input_full_path.id]
           L == Log(local[w], OpenCall(local[w].app_type))
       IN /\ engines' = Invoke(engines, h, w)
          /\ \/ \* the call raises: wrong kind of application, dead application,
                \* or a document the application refuses
                /\ \/ engines[h].kind # local[w].app_type
                   \/ ~engines[h].alive
                   \/ Faulty("document")
                /\ local' = [local EXCEPT ![w] =
                                Raise(L, IF engines[h].kind # local[w].app_type
                                         THEN "attribute" ELSE "open_raise")]
                /\ pc' = [pc EXCEPT ![w] = "close"]
                /\ UNCHANGED <<thread_local, openDocs, openFailed, exportFailed>>
             \/ \* the call returns None
                /\ engines[h].kind = local[w].app_type /\ engines[h].alive
                /\ Faulty("document")
                /\ local' = [local EXCEPT ![w] = Raise(L, "open_none")]
                /\ pc' = [pc EXCEPT ![w] = "close"]
                /\ thread_local' = [thread_local EXCEPT
                                       ![ThreadLocalKey(w)] = SlotAfterOpenNone(w)]
                /\ openFailed' = [openFailed EXCEPT ![w] = local[w].app_type]
                /\ UNCHANGED <<openDocs, exportFailed>>
             \/ \* the call returns a document
                /\ engines[h].kind = local[w].app_type /\ engines[h].alive
                /\ local' = [local EXCEPT ![w] = [L EXCEPT !.doc = d]]
                /\ openDocs' = openDocs \cup {d}
                /\ pc' = [pc EXCEPT ![w] = "export"]
                /\ UNCHANGED <<thread_local, openFailed, exportFailed>>
    /\ UNCHANGED <<scenario, response, fs, leaked>>

\* ------------------------------------- office_to_pdf_stream, lines 132-154
\* Faulty variant of SlotAfterExportFailure: the slot is cleared.
SlotClearedAfterExportFailure(w) == NoHandle

\* The handle the thread keeps after an export that raised: lines 162-164 log
\* and re-raise, the slot is not touched.

SlotAfterExportFailure(w) == thread_local[ThreadLocalKey(w)]

\* Faulty variant of ExportCall: save-as for every kind.
ExportCallSaveAs(app_type) == "SaveAs"

\* The export entry point the dispatch on app_type calls.

ExportCall(app_type) ==
    CASE app_type = "Word" -> "SaveAs"
      [] app_type = "Excel" -> "ExportAsFixedFormat"
      [] app_type = "PowerPoint" -> "SaveAs"

\* Faulty variant of StepAfterExport: the finally block follows the export at
\* once, the PDF is not read.
StepAfterExportSkipsRead == "close"

\* Lines 156-160 follow the export inside the try block: the PDF is read
\* before the finally block closes the document.

StepAfterExport == "read"

pdf_filename_of(filename) == splitext0(filename) \o <<".","p","d","f">>

export_pdf(w) ==
    /\ pc[w] = "export"
    /\ FreshUuids # {}
    /\ \E exported \in {"ok", "fail_no_file", "fail_partial_file"} :
        LET name == pdf_filename_of(local[w].filename)
            p == get_safe_filename(uuid4, name)
            h == local[w].doc.eng
            L == Log([local[w] EXCEPT !.pdf_filename = name, !.pdf_save_path = p],
                     ExportCall(local[w].app_type))
        IN /\ exported = "ok" => engines[h].alive
           /\ exported # "ok" => ~engines[h].alive \/ Faulty("document")
           /\ engines' = Invoke(engines, h, w)
           /\ fs' = IF exported = "fail_no_file" THEN fs ELSE fs \cup {p}
           /\ IF exported = "ok"
              THEN /\ local' = [local EXCEPT ![w] = L]
                   /\ pc' = [pc EXCEPT ![w] = StepAfterExport]
                   /\ UNCHANGED <<thread_local, exportFailed>>
              ELSE /\ local' = [local EXCEPT ![w] = Raise(L, "export")]
                   /\ pc' = [pc EXCEPT ![w] = "close"]
                   /\ thread_local' = [thread_local EXCEPT
                                          ![ThreadLocalKey(w)] = SlotAfterExportFailure(w)]
                   /\ exportFailed' = [exportFailed EXCEPT ![w] =
                                          [app_type |-> local[w].app_type,
                                           office_app |-> local[w].office_app]]
    /\ UNCHANGED <<scenario, response, leaked, openDocs, openFailed>>

\* ------------------------------------- office_to_pdf_stream, lines 156-160
read_pdf(w) ==
    /\ pc[w] = "read"
    /\ \E readable \in {TRUE} \cup (IF Faulty("fs") THEN {FALSE} ELSE {}) :
        IF readable /\ local[w].pdf_save_path \in fs
        THEN local' = [local EXCEPT ![w] = Log([@ EXCEPT !.pdf_stream = "pdf"], "read")]
        ELSE local' = [local EXCEPT ![w] = Raise(Log(@, "read_fail"), "read")]
    /\ pc' = [pc EXCEPT ![w] = "close"]
    /\ UNCHANGED <<scenario, response, thread_local, engines, fs, leaked, openDocs, openFailed, exportFailed>>

\* ------------------------------------- office_to_pdf_stream, lines 165-176
\* Faulty variant of ShouldClose: the document is closed on the success path
\* only.
ShouldCloseOnSuccess(w) == local[w].doc # NoDoc /\ local[w].err = NoError

\* Line 167

ShouldClose(w) == local[w].doc # NoDoc

\* doc.Close: when it raises, the warning is logged and nothing else happens;
\* the document stays open in an application that is still alive.
close_document(w) ==
    /\ pc[w] = "close"
    /\ IF ShouldClose(w)
       THEN /\ engines' = Invoke(engines, local[w].doc.eng, w)
            /\ \/ /\ engines[local[w].doc.eng].alive
                  /\ openDocs' = openDocs \ {local[w].doc}
                  /\ local' = [local EXCEPT ![w] = Log(@, "close_ok")]
               \/ /\ ~engines[local[w].doc.eng].alive \/ Faulty("document")
                  /\ openDocs' = openDocs
                  /\ local' = [local EXCEPT ![w] =
                                  Swallow(Log(@, "close_fail"), "close")]
       ELSE UNCHANGED <<engines, openDocs, local>>
    /\ pc' = [pc EXCEPT ![w] = "rm_input"]
    /\ UNCHANGED <<scenario, response, thread_local, fs, leaked, openFailed, exportFailed>>

\* ------------------------------------- office_to_pdf_stream, lines 178-191
\* Faulty variant of ShouldRemoveInput: the input is removed on the success
\* path only.
ShouldRemoveInputOnSuccess(w) ==
    /\ local[w].input_full_path # NoPath
    /\ local[w].input_full_path \in fs
    /\ local[w].err = NoError

\* Line 179
ShouldRemoveInput(w) ==
    /\ local[w].input_full_path # NoPath
    /\ local[w].input_full_path \in fs

\* Faulty variant of ShouldRemoveOutput: the output is removed on the success
\* path only.
ShouldRemoveOutputOnSuccess(w) ==
    /\ local[w].pdf_save_path # NoPath
    /\ local[w].pdf_save_path \in fs
    /\ local[w].err = NoError

\* Line 186

ShouldRemoveOutput(w) ==
    /\ local[w].pdf_save_path # NoPath
    /\ local[w].pdf_save_path \in fs

\* os.remove either removes the file or raises; the error is logged only.
remove_input(w) ==
    /\ pc[w] = "rm_input"
    /\ IF ShouldRemoveInput(w)
       THEN \E removed \in {TRUE} \cup (IF Faulty("fs") THEN {FALSE} ELSE {}) :
               /\ fs' = IF removed THEN fs \ {local[w].input_full_path} ELSE fs
               /\ local' = [local EXCEPT ![w] =
                               IF removed THEN Log(@, "rm_input_ok")
                               ELSE Swallow(Log(@, "rm_input_fail"), "remove")]
       ELSE UNCHANGED <<fs, local>>
    /\ pc' = [pc EXCEPT ![w] = "rm_output"]
    /\ UNCHANGED <<scenario, response, thread_local, engines, leaked, openDocs, openFailed, exportFailed>>

remove_output(w) ==
    /\ pc[w] = "rm_output"
    /\ IF ShouldRemoveOutput(w)
       THEN \E removed \in {TRUE} \cup (IF Faulty("fs") THEN {FALSE} ELSE {}) :
               /\ fs' = IF removed THEN fs \ {local[w].pdf_save_path} ELSE fs
               /\ local' = [local EXCEPT ![w] =
                               IF removed THEN Log(@, "rm_output_ok")
                               ELSE Swallow(Log(@, "rm_output_fail"), "remove")]
       ELSE UNCHANGED <<fs, local>>
    /\ pc' = [pc EXCEPT ![w] = "respond"]
    /\ UNCHANGED <<scenario, response, thread_local, engines, leaked, openDocs, openFailed, exportFailed>>

\* ------------------- line 193 and upload_file, lines 249-262: the response
\* The errors a conversion can raise; all are subclasses of Exception.
Exceptions ==
    {"save", "probe", "init", "config", "attribute", "open_raise", "open_none",
     "export", "read"}

\* Faulty variant of CaughtByUploadFile: only the exception office_to_pdf_stream
\* raises itself is caught.
CaughtOnlyOwnException(exc) == exc = "open_none"

\* Line 260: except Exception.

CaughtByUploadFile(exc) == exc \in Exceptions

\* Faulty variant of ResponseFor: the content of pdf_stream is returned
\* whether or not the conversion raised.
ResponseIgnoringError(w) == [status |-> 200, body |-> local[w].pdf_stream]

\* What upload_file returns once office_to_pdf_stream has returned or raised.

ResponseFor(w) ==
    IF local[w].err = NoError
    THEN [status |-> 200, body |-> local[w].pdf_stream]
    ELSE [status |-> 500, body |-> "error"]

\* The staged paths of the request of w that still exist.
Leftover(w) == {local[w].input_save_path, local[w].pdf_save_path} \cap fs

\* The request ends: its locals go out of scope.  What it left on disk or open
\* in its application is never referred to again: the files are kept as a
\* count, the document is no longer tracked.
respond(w) ==
    /\ pc[w] = "respond"
    /\ local[w].err # NoError => CaughtByUploadFile(local[w].err)
    /\ response' = [response EXCEPT ![w] = ResponseFor(w)]
    /\ local' = [local EXCEPT ![w] = NoLocals]
    /\ fs' = fs \ Leftover(w)
    /\ leaked' = IF leaked + Cardinality(Leftover(w)) > MaxLeaked
                 THEN MaxLeaked ELSE leaked + Cardinality(Leftover(w))
    /\ openDocs' = openDocs \ {local[w].doc}
    /\ engines' = Collect(engines,
                          RefsOf(thread_local, [local EXCEPT ![w] = NoLocals]))
    /\ pc' = [pc EXCEPT ![w] = "idle"]
    /\ UNCHANGED <<scenario, thread_local, openFailed, exportFailed>>

\* -------------------------------------------------------------- environment
\* An Office application dies (crash, killed process): every later COM call on
\* its handle raises com_error, and the documents it had open are gone.
EngineCrash(h) ==
    /\ Faulty("engine")
    /\ engines[h].alive
    /\ h \in Referenced
    /\ engines' = [engines EXCEPT ![h].alive = FALSE]
    /\ openDocs' = {d \in openDocs : d.eng # h}
    /\ UNCHANGED <<scenario, pc, local, response, thread_local, fs, leaked, openFailed, exportFailed>>

Next ==
    \/ \E w \in Workers :
        \/ \E r \in Requests : upload_file_reject(w, r)
        \/ \E r \in Requests : upload_file_accept(w, r)
        \/ stage_input(w)
        \/ get_office_application(w)
        \/ open_document(w)
        \/ export_pdf(w)
        \/ read_pdf(w)
        \/ close_document(w)
        \/ remove_input(w)
        \/ remove_output(w)
        \/ respond(w)
    \/ \E h \in Handles : EngineCrash(h)

Spec == Init /\ [][Next]_vars

SpecConcurrent == InitConcurrent /\ [][Next]_vars

\* The steps of the request a worker has in hand, from staging to the
\* response.
Handler(w) ==
    \/ stage_input(w)
    \/ get_office_application(w)
    \/ open_document(w)
    \/ export_pdf(w)
    \/ read_pdf(w)
    \/ close_document(w)
    \/ remove_input(w)
    \/ remove_output(w)
    \/ respond(w)

\* Every file-system and COM call returns or raises: a thread that has a
\* request in hand keeps running.  Requests arrive, and applications die,
\* whenever they do.
SpecLive == Spec /\ \A w \in Workers : WF_vars(Handler(w))

\* ================================================================== claims
\* The finally block of office_to_pdf_stream has run and upload_file is about
\* to return the response: the request completes.
Completed(w) == pc[w] = "respond"

Has(tr, ev) == \E i \in 1..Len(tr) : tr[i] = ev

Count(tr, evs) == Cardinality({i \in 1..Len(tr) : tr[i] \in evs})

\* The worker is between a successful acquire and the end of its request.
Holding(w) == local[w].office_app # NoHandle

\* ---------------------------------------------------------------------- C1
\* C1 (as claimed): for every request that reached staging, neither the staged
\* input nor the staged output exists when the request completes, on every
\* exit path.
C1_CleanupInvariant ==
    \A w \in Workers :
        Completed(w) /\ local[w].input_save_path # NoPath
        => /\ local[w].input_save_path \notin fs
           /\ local[w].pdf_save_path \notin fs

\* ---------------------------------------------------------------------- C2
\* C2 (as claimed): the engine acquire returns to a worker is an engine of the
\* kind the request asks for.
C2_AcquireReturnsRequestedKind ==
    \A w \in Workers :
        pc[w] = "open" => engines[local[w].office_app].kind = local[w].app_type

\* ---------------------------------------------------------------------- C3
\* C3: an engine handle is only ever called into by the worker that created
\* it: every handle a worker's slot or request holds was created by that
\* worker, no call has reached an engine from another thread, and two workers
\* never hold the same handle.
C3_WorkerAffinity ==
    /\ \A h \in Handles : ~engines[h].foreign
    /\ \A w \in Workers :
        /\ thread_local[w] # NoHandle => engines[thread_local[w]].creator = w
        /\ Holding(w) => engines[local[w].office_app].creator = w
        /\ local[w].doc # NoDoc => engines[local[w].doc.eng].creator = w
    /\ \A v, w \in Workers :
        v # w /\ Holding(v) /\ Holding(w) => local[v].office_app # local[w].office_app

\* Two workers are converting at the same time, each inside its own engine.
C3_Witness ==
    /\ pc["w1"] = "export" /\ pc["w2"] = "export"
    /\ local["w1"].office_app # local["w2"].office_app

\* ---------------------------------------------------------------------- C4
\* C4: when a worker's slot holds an engine of the requested kind and its
\* liveness probe succeeds, acquire returns that same handle, leaves the slot
\* as it is and constructs no engine.
C4_PoolingInvariant ==
    [][\A w \in Workers :
          ( /\ pc[w] = "acquire" /\ pc'[w] # "acquire"
            /\ thread_local[w] # NoHandle
            /\ engines[thread_local[w]].alive
            /\ engines[thread_local[w]].kind = local[w].app_type )
          => /\ pc'[w] = "open"
             /\ local'[w].office_app = thread_local[w]
             /\ thread_local' = thread_local
             /\ ~Has(local'[w].trace, "construct")
             /\ \A h \in Handles : engines'[h].kind = engines[h].kind]_vars

\* A request served by a reused engine ends with the PDF.
C4_Witness ==
    \E w \in Workers :
        /\ Completed(w) /\ Has(local[w].trace, "probe_ok")
        /\ ResponseFor(w) = [status |-> 200, body |-> "pdf"]

\* ---------------------------------------------------------------------- C5
\* C5: when the probe of the worker's existing engine fails at acquire, the
\* probe failure itself is not an error of the request: exactly one engine of
\* the requested kind is constructed, it replaces the old handle in the slot,
\* and the request goes on to open with the new handle; the request can fail
\* at this point only because the construction itself failed.
C5_ProbeFailureReconstructs ==
    [][\A w \in Workers :
          ( /\ pc[w] = "acquire" /\ pc'[w] # "acquire"
            /\ thread_local[w] # NoHandle
            /\ ~engines[thread_local[w]].alive )
          => \/ /\ pc'[w] = "open"
                /\ local'[w].err = NoError
                /\ local'[w].office_app # thread_local[w]
                /\ local'[w].office_app = thread_local'[w]
                /\ engines'[thread_local'[w]].alive
                /\ engines'[thread_local'[w]].kind = local[w].app_type
                /\ Count(local'[w].trace, {"construct"}) = 1
             \/ local'[w].err \in {"init", "config"}]_vars

\* A request whose probe failed completes with a PDF body.
C5_Witness ==
    \E w \in Workers :
        /\ Completed(w) /\ Has(local[w].trace, "probe_fail")
        /\ ResponseFor(w) = [status |-> 200, body |-> "pdf"]

\* ---------------------------------------------------------------------- C6
\* C6 (as claimed): after Open returned no handle, the next acquire by the
\* same worker for that kind constructs a fresh engine instead of reusing the
\* handle.
C6_OpenNoneMarksStale ==
    \A w \in Workers :
        pc[w] = "open" /\ local[w].prev_open_failed = local[w].app_type
        => Has(local[w].trace, "construct")

\* C6 (amended): Open returning no handle fails the request but leaves the
\* lease as it was: the slot still holds the same handle, and the next acquire
\* by that worker for that kind reuses it without constructing whenever its
\* probe succeeds; a fresh engine is constructed only when that probe fails.
C6_OpenNoneKeepsLease ==
    \A w \in Workers :
        /\ local[w].err = "open_none" => thread_local[w] = local[w].office_app
        /\ pc[w] = "open" /\ local[w].prev_open_failed = local[w].app_type
           => /\ Has(local[w].trace, "probe_ok")
                 => /\ ~Has(local[w].trace, "construct")
                    /\ local[w].office_app = thread_local[w]
              /\ Has(local[w].trace, "construct") => Has(local[w].trace, "probe_fail")

\* The acquire after an Open that returned None reuses the handle.
C6_Witness ==
    \E w \in Workers :
        /\ pc[w] = "open" /\ local[w].prev_open_failed = local[w].app_type
        /\ Has(local[w].trace, "probe_ok")

\* ---------------------------------------------------------------------- C7
OpenNoneCommon(w) ==
    /\ ResponseFor(w).status = 500
    /\ local[w].pdf_save_path = NoPath
    /\ Count(local[w].trace, {"SaveAs", "ExportAsFixedFormat"}) = 0
    /\ Count(local[w].trace, {"close_ok", "close_fail"}) = 0

\* C7 (as claimed): when Open returns no handle the response is a 500, the
\* staged input is deleted, no staged output path is created and no export or
\* close is attempted.
C7_OpenNoneOutcome ==
    \A w \in Workers :
        Completed(w) /\ local[w].err = "open_none"
        => OpenNoneCommon(w) /\ local[w].input_full_path \notin fs

\* C7 (amended): when Open returns no handle the response is a 500, deleting
\* the staged input is attempted and the input is gone unless that os.remove
\* itself fails (which is logged and swallowed), no staged output path is
\* created and no export or close is attempted.
C7_OpenNoneOutcomeBestEffort ==
    \A w \in Workers :
        Completed(w) /\ local[w].err = "open_none"
        => /\ OpenNoneCommon(w)
           /\ Count(local[w].trace, {"rm_input_ok", "rm_input_fail"}) = 1
           /\ Has(local[w].trace, "rm_input_ok") => local[w].input_full_path \notin fs

C7_Witness ==
    \E w \in Workers :
        /\ Completed(w) /\ local[w].err = "open_none"
        /\ Has(local[w].trace, "rm_input_ok")

\* ---------------------------------------------------------------------- C8
CloseCalls(w) == Count(local[w].trace, {"close_ok", "close_fail"})

\* C8 (as claimed): once a document handle exists, close is invoked exactly
\* once before the request completes, on every path, and no request ends
\* leaving its document open inside the engine.
C8_CloseExactlyOnce ==
    \A w \in Workers :
        Completed(w) /\ local[w].doc # NoDoc
        => CloseCalls(w) = 1 /\ local[w].doc \notin openDocs

\* C8 (amended): once a document handle exists, close is invoked exactly once
\* before the request completes, on every path (none when no handle exists);
\* the document is no longer open when the request ends unless that close call
\* itself raised, which is logged and swallowed.
C8_CloseExactlyOnceBestEffort ==
    \A w \in Workers :
        Completed(w)
        => /\ local[w].doc # NoDoc
              => /\ CloseCalls(w) = 1
                 /\ Has(local[w].trace, "close_ok") => local[w].doc \notin openDocs
           /\ local[w].doc = NoDoc => CloseCalls(w) = 0

\* A request whose export failed has closed its document.
C8_Witness ==
    \E w \in Workers :
        /\ Completed(w) /\ local[w].doc # NoDoc /\ local[w].err = "export"
        /\ Has(local[w].trace, "close_ok")

\* ---------------------------------------------------------------------- C9
\* The extension mapping of the upload endpoint: the name, lower-cased, ends
\* in a dot and one of doc, docx, xls, xlsx, ppt, pptx.
RecognizedExtension(filename) ==
    \E e \in ALLOWED_EXTENSIONS : endswith(lower(filename), <<".">> \o e)

BadRequest(r) ==
    ~r.has_file \/ r.filename = <<>> \/ ~RecognizedExtension(r.filename)

\* C9: a request with no file field, an empty filename or an unrecognized
\* extension is answered 400 in one step that stages no file and acquires or
\* constructs no engine: the file system, the engines and the worker's slot
\* are left as they were, and no conversion is started.
C9_BadRequestRejected ==
    [][\A w \in Workers : \A r \in Requests :
          BadRequest(r) /\ (upload_file_reject(w, r) \/ upload_file_accept(w, r))
          => /\ response'[w] = [status |-> 400, body |-> "error"]
             /\ pc'[w] = "idle"
             /\ local'[w] = NoLocals
             /\ UNCHANGED <<fs, leaked, engines, thread_local, openDocs>>]_vars

\* A bad request was answered 400 by a worker that keeps a warm engine.
C9_Witness ==
    \E w \in Workers :
        /\ response[w].status = 400 /\ pc[w] = "idle"
        /\ thread_local[w] # NoHandle /\ engines[thread_local[w]].alive

\* --------------------------------------------------------------------- C10
\* C10 (as claimed): when constructing or configuring the engine fails during
\* acquire, the worker retains no usable handle, so that its next acquire
\* constructs afresh.
C10_InitFailureLeavesLeaseAbsent ==
    \A w \in Workers :
        local[w].err \in {"init", "config"}
        => thread_local[w] = NoHandle \/ ~engines[thread_local[w]].alive

\* --------------------------------------------------------------------- C11
\* C11: an export that raises leaves the worker's slot holding the handle the
\* request used, and when the next request of that worker for the same kind
\* finds the probe of that handle succeeding, acquire returns that very handle
\* and constructs nothing.
C11_ExportFailureKeepsEngine ==
    \A w \in Workers :
        /\ local[w].err = "export" => thread_local[w] = local[w].office_app
        /\ ( /\ pc[w] \in {"open", "export", "read", "close", "rm_input", "rm_output",
                           "respond"}
             /\ local[w].prev_export_failed.app_type = local[w].app_type
             /\ Has(local[w].trace, "probe_ok") )
           => /\ ~Has(local[w].trace, "construct")
              /\ local[w].office_app = local[w].prev_export_failed.office_app
              /\ thread_local[w] = local[w].prev_export_failed.office_app

\* The request after a failed export is served by the same handle and ends
\* with the PDF.
C11_Witness ==
    \E w \in Workers :
        /\ Completed(w)
        /\ local[w].prev_export_failed.app_type = local[w].app_type
        /\ local[w].office_app = local[w].prev_export_failed.office_app
        /\ Has(local[w].trace, "probe_ok")
        /\ ResponseFor(w) = [status |-> 200, body |-> "pdf"]

\* --------------------------------------------------------------------- C12
\* The staged paths of the request a worker has in hand.
Owned(w) == {local[w].input_save_path, local[w].pdf_save_path} \ {NoPath}

\* C12: in every interleaving of concurrent requests, uploads of the same name
\* included, the staged input and output paths of the requests in hand are
\* pairwise distinct, and a step of one request never creates, replaces or
\* deletes a staged file of another request: every path that changes on disk
\* belongs to the request that takes the step, and the path a request reads
\* is its own.
C12_StagingIsolation ==
    /\ [](/\ \A v, w \in Workers : v # w => Owned(v) \cap Owned(w) = {}
          /\ \A w \in Workers :
                local[w].pdf_save_path # NoPath
                => local[w].pdf_save_path # local[w].input_save_path)
    /\ [][\A w \in Workers :
             pc'[w] = pc[w]
             => /\ local'[w] = local[w]
                /\ \A p \in Owned(w) : (p \in fs') <=> (p \in fs)]_vars

\* Two requests that uploaded the same file name have both staged their input
\* and their output.
C12_Witness ==
    /\ pc["w1"] = "read" /\ pc["w2"] = "read"
    /\ local["w1"].filename = local["w2"].filename
    /\ Owned("w1") \subseteq fs /\ Owned("w2") \subseteq fs
    /\ Cardinality(Owned("w1") \cup Owned("w2")) = 4

\* --------------------------------------------------------------------- C13
\* C13: every request that passes validation gets exactly one response, a PDF
\* (200) or a server-error payload (500): none while the request is in hand,
\* one when it ends, and it does end, whatever failed inside the pipeline or
\* the engine manager; the worker is then idle and accepts a further request.
C13_ExactlyOneResponse ==
    /\ [](\A w \in Workers :
            /\ pc[w] # "idle" => response[w] = NoResponse
            /\ pc[w] = "idle" /\ w \in scenario.threads
               => \E r \in Requests : ENABLED upload_file_accept(w, r))
    /\ [][\A w \in Workers :
             response'[w] # response[w]
             => \/ /\ pc[w] = "respond" /\ pc'[w] = "idle"
                   /\ response'[w] = ResponseFor(w)
                   /\ response'[w].status \in {200, 500}
                \/ /\ pc[w] = "idle" /\ pc'[w] = "stage"
                   /\ response'[w] = NoResponse
                \/ /\ pc[w] = "idle" /\ pc'[w] = "idle"
                   /\ response'[w].status = 400]_vars
    /\ \A w \in Workers :
          pc[w] = "stage" ~> (pc[w] = "idle" /\ response[w].status \in {200, 500})

\* A request that failed has been answered 500 and its worker is idle again.
C13_Witness ==
    \E w \in Workers : pc[w] = "idle" /\ response[w] = [status |-> 500, body |-> "error"]

\* --------------------------------------------------------------------- C14
\* The kind table of the upload endpoint.
KindOfExtension(e) ==
    CASE e \in {<<"d","o","c">>, <<"d","o","c","x">>} -> "Word"
      [] e \in {<<"x","l","s">>, <<"x","l","s","x">>} -> "Excel"
      [] e \in {<<"p","p","t">>, <<"p","p","t","x">>} -> "PowerPoint"

\* The recognized extension a name ends in, compared case-insensitively.
ExtensionOf(filename) ==
    CHOOSE e \in ALLOWED_EXTENSIONS : endswith(lower(filename), <<".">> \o e)

\* Something other than dots precedes the extension of the name.
HasStem(filename) ==
    \E j \in 1..(Len(filename) - Len(ExtensionOf(filename)) - 1) : filename[j] # "."

OpenCalls == {"Documents.Open", "Workbooks.Open", "Presentations.Open"}

ExportCalls == {"SaveAs", "ExportAsFixedFormat"}

\* The open and the export call that belong to each kind.
MatchingOpen(kind) ==
    CASE kind = "Word" -> "Documents.Open"
      [] kind = "Excel" -> "Workbooks.Open"
      [] kind = "PowerPoint" -> "Presentations.Open"

MatchingExport(kind) == IF kind = "Excel" THEN "ExportAsFixedFormat" ELSE "SaveAs"

\* Every request in hand has a name with a recognized extension, the kind the
\* table gives for that extension, and has used no open or export call but
\* the ones of that kind.
DispatchMatches ==
    \A w \in Workers :
        pc[w] # "idle"
        => /\ RecognizedExtension(local[w].filename)
           /\ local[w].app_type = KindOfExtension(ExtensionOf(local[w].filename))
           /\ \A i \in 1..Len(local[w].trace) :
                 /\ local[w].trace[i] \in OpenCalls
                    => local[w].trace[i] = MatchingOpen(local[w].app_type)
                 /\ local[w].trace[i] \in ExportCalls
                    => local[w].trace[i] = MatchingExport(local[w].app_type)
           /\ pc[w] \in {"export", "read"} => Count(local[w].trace, OpenCalls) = 1
           /\ pc[w] = "read" => Count(local[w].trace, ExportCalls) = 1

Rank(ev) ==
    CASE ev = "stage" -> 1
      [] ev \in {"probe_ok", "probe_fail", "construct", "construct_fail"} -> 2
      [] ev \in OpenCalls -> 3
      [] ev \in ExportCalls -> 4
      [] ev \in {"read", "read_fail"} -> 5
      [] ev \in {"close_ok", "close_fail"} -> 6
      [] ev \in {"rm_input_ok", "rm_input_fail"} -> 7
      [] ev \in {"rm_output_ok", "rm_output_fail"} -> 8

\* The last state a request that failed with this error had entered.
RankReached(err) ==
    CASE err = "save" -> 0
      [] err \in {"probe", "init", "config"} -> 2
      [] err \in {"attribute", "open_raise", "open_none"} -> 3
      [] err = "export" -> 4
      [] err = "read" -> 5

InFinally(w) == pc[w] \in {"close", "rm_input", "rm_output", "respond"}

\* What C15 says apart from the deletion of files under an open document.
OrderingCommon(w) ==
    \* the events of the request come in the order of the states, each at most
    \* once (the probe of the old application may precede the construction)
    /\ \A i, j \in 1..Len(local[w].trace) :
          i < j => /\ Rank(local[w].trace[i]) <= Rank(local[w].trace[j])
                   /\ Rank(local[w].trace[i]) = Rank(local[w].trace[j])
                      => Rank(local[w].trace[i]) = 2
    \* the engine is acquired only once the input is staged, export follows open
    /\ pc[w] \in {"open", "export", "read"}
       => Has(local[w].trace, "stage") /\ local[w].input_full_path \in fs
    /\ Count(local[w].trace, ExportCalls) > 0 => Count(local[w].trace, OpenCalls) = 1
    \* a failure goes straight to the finally block: no state after the one
    \* that failed has been visited
    /\ local[w].err # NoError
       => /\ InFinally(w)
          /\ \A i \in 1..Len(local[w].trace) :
                Rank(local[w].trace[i]) <= RankReached(local[w].err)
                \/ Rank(local[w].trace[i]) >= 6
    \* no response before close and cleanup have run
    /\ pc[w] # "idle" => response[w] = NoResponse
    /\ Completed(w)
       => /\ local[w].doc # NoDoc => CloseCalls(w) = 1
          /\ local[w].input_full_path \in fs => Has(local[w].trace, "rm_input_fail")
          /\ local[w].pdf_save_path \in fs => Has(local[w].trace, "rm_output_fail")

\* C15 (as claimed): the events of one request occur in an order consistent
\* with Staged, Opened, Exported, Closed, Cleaned; the input is staged before
\* the engine is acquired, open precedes export, no staged file is deleted
\* while the document is still open, the response comes only after close and
\* cleanup have run, and a failure jumps directly to Closed/Cleaned.
C15_PerRequestOrdering ==
    \A w \in Workers :
        /\ OrderingCommon(w)
        /\ Count(local[w].trace, {"rm_input_ok", "rm_output_ok"}) > 0
           => local[w].doc \notin openDocs

\* C15 (amended): as claimed, except that staged files are deleted once the
\* close of the document has been attempted: the document is no longer open
\* when they are deleted unless that close raised, which is logged and
\* swallowed.
C15_PerRequestOrderingBestEffort ==
    \A w \in Workers :
        /\ OrderingCommon(w)
        /\ Count(local[w].trace, {"rm_input_ok", "rm_output_ok"}) > 0
           /\ local[w].doc # NoDoc
           => /\ CloseCalls(w) = 1
              /\ Has(local[w].trace, "close_ok") => local[w].doc \notin openDocs

\* A request whose export failed has closed its document and then deleted
\* both staged files.
C15_Witness ==
    \E w \in Workers :
        /\ Completed(w) /\ local[w].err = "export"
        /\ Has(local[w].trace, "close_ok")
        /\ Has(local[w].trace, "rm_input_ok") /\ Has(local[w].trace, "rm_output_ok")

\* --------------------------------------------------------------------- C16
\* C16: a failure to close the document or to delete a staged file never
\* changes the outcome of the request: no step of the finally block changes
\* the error or the PDF the request will answer with, a request whose export
\* and read succeeded answers 200 with the PDF, and a request that failed
\* before answers 500 with the first error, the one of the pipeline.
C16_TerminalFailuresSwallowed ==
    /\ [](\A w \in Workers :
            Completed(w)
            => /\ Has(local[w].trace, "read")
                  => ResponseFor(w) = [status |-> 200, body |-> "pdf"]
               /\ ~Has(local[w].trace, "read")
                  => /\ ResponseFor(w) = [status |-> 500, body |-> "error"]
                     /\ local[w].err \in Exceptions)
    /\ [][\A w \in Workers :
             InFinally(w) /\ InFinally(w)'
             => /\ local'[w].err = local[w].err
                /\ local'[w].pdf_stream = local[w].pdf_stream]_vars

\* The close and the deletion of the output both failed in a request that
\* ends with the PDF.
C16_Witness ==
    \E w \in Workers :
        /\ Completed(w)
        /\ Has(local[w].trace, "close_fail") /\ Has(local[w].trace, "rm_output_fail")
        /\ ResponseFor(w) = [status |-> 200, body |-> "pdf"]

\* --------------------------------------------------------------------- C17
\* The position of the first of the events evs in a trace, 0 if there is none.
Pos(tr, evs) ==
    IF \E i \in 1..Len(tr) : tr[i] \in evs
    THEN CHOOSE i \in 1..Len(tr) :
            tr[i] \in evs /\ \A j \in 1..(i - 1) : tr[j] \notin evs
    ELSE 0

Succeeded(w) == Completed(w) /\ local[w].err = NoError

ClosePos(w) == Pos(local[w].trace, {"close_ok", "close_fail"})

ReadPos(w) == Pos(local[w].trace, {"read"})

RemoveOutputPos(w) == Pos(local[w].trace, {"rm_output_ok", "rm_output_fail"})

\* C17 (as claimed): in every successful request the close of the document
\* precedes the read of the staged output, and the read precedes the deletion
\* of the staged output.
C17_CloseBeforeRead ==
    \A w \in Workers :
        Succeeded(w)
        => /\ 0 < ClosePos(w) /\ ClosePos(w) < ReadPos(w)
           /\ ReadPos(w) < RemoveOutputPos(w)

\* C17 (amended): in every successful request the staged output is read while
\* the document is still open: the read precedes the close of the document,
\* and the close precedes the deletion of the staged output.
C17_ReadBeforeClose ==
    \A w \in Workers :
        Succeeded(w)
        => /\ 0 < ReadPos(w) /\ ReadPos(w) < ClosePos(w)
           /\ ClosePos(w) < RemoveOutputPos(w)

\* A successful request has read the PDF, closed its document and deleted the
\* staged output.
C17_Witness ==
    \E w \in Workers :
        /\ Succeeded(w)
        /\ Has(local[w].trace, "close_ok") /\ Has(local[w].trace, "rm_output_ok")

\* --------------------------------------------------------------------- C18
\* Within the request of w, Open returned a document, the export was called
\* once and did not raise, and the staged output was read, before any attempt
\* to delete it.
ConvertedAndRead(w) ==
    /\ local[w].doc # NoDoc
    /\ Count(local[w].trace, OpenCalls) = 1
    /\ Count(local[w].trace, ExportCalls) = 1
    /\ local[w].err # "export"
    /\ ReadPos(w) > 0
    /\ RemoveOutputPos(w) = 0 \/ ReadPos(w) < RemoveOutputPos(w)

\* C18: a request answers 200 only when, within it, Open returned a document,
\* the export did not raise and the staged output was read before being
\* deleted, and the body is then the PDF that was read; on every other path
\* it answers 500 with an error payload, so that no success carries an empty
\* body.
C18_SuccessOnlyWhenConverted ==
    /\ [](\A w \in Workers :
            /\ Completed(w)
               => IF ConvertedAndRead(w)
                  THEN ResponseFor(w) = [status |-> 200, body |-> "pdf"]
                  ELSE ResponseFor(w) = [status |-> 500, body |-> "error"]
            /\ response[w].status = 200 => response[w].body = "pdf")
    /\ [][\A w \in Workers :
             response'[w] # response[w] /\ response'[w].status = 200
             => Completed(w) /\ ConvertedAndRead(w)]_vars

\* The export succeeded but the staged output could not be read: the request
\* ends with an error payload.
C18_Witness ==
    \E w \in Workers :
        /\ Completed(w) /\ local[w].err = "read"
        /\ Count(local[w].trace, ExportCalls) = 1
        /\ ResponseFor(w) = [status |-> 500, body |-> "error"]
====
